---- MODULE Spec2Model ----
(***************************************************************************)
(* Conductance based LIF neuron: one Euler integration step, recurrent     *)
(* (coba_lif_step) and feed forward (coba_lif_feed_forward_step), from     *)
(* norse/torch/functional/coba_lif.py.                                     *)
(*                                                                         *)
(* Tensor elements are modelled as exact rationals <<num, den>> in lowest  *)
(* terms with den > 0, so that products and sums are computed exactly.     *)
(* A tensor of shape [1, n] is a function from an index set to rationals.  *)
(***************************************************************************)
EXTENDS Integers, Sequences, FiniteSets, TLC

VARIABLES
    kind,               \* "rec": the caller iterates coba_lif_step, "ff": coba_lif_feed_forward_step
    parameters,         \* the CobaLIFParameters passed to every call
    dt,                 \* the integration time step passed to every call
    input_weights,      \* [neurons, input_features]   (recurrent step only)
    recurrent_weights,  \* [neurons, neurons]          (recurrent step only)
    state,              \* the state object the caller holds and passes as argument
    input_tensor,       \* the input passed to the latest call
    out,                \* what the latest call computed and returned
    pc,                 \* "idle": between calls, "returned": a call has just returned
    steps,              \* number of returned states fed back so far
    init_state,         \* the state the caller started from
    inputs_nonneg,      \* the inputs of all steps fed back so far were >= 0
    inputs_zero         \* the inputs of all steps fed back so far were all-zero

vars == <<kind, parameters, dt, input_weights, recurrent_weights, state,
          input_tensor, out, pc, steps, init_state, inputs_nonneg,
          inputs_zero>>

(***************************************************************************)
(* Bounds of the exploration.                                              *)
(***************************************************************************)
MaxSteps == 2
MaxDen == 40

Neurons == {"n1", "n2"}
Inputs == {"i1"}

(***************************************************************************)
(* Exact rational arithmetic on tensor elements.  Sums go through the      *)
(* least common denominator and products cancel crosswise first, which     *)
(* keeps every intermediate value small.                                   *)
(***************************************************************************)
Abs(n) == IF n < 0 THEN -n ELSE n

RECURSIVE GCD(_, _)
GCD(a, b) == IF b = 0 THEN a ELSE GCD(b, a % b)

Norm(n, d) ==
    LET g == GCD(Abs(n), Abs(d))
        s == IF d < 0 THEN -1 ELSE 1
    IN  <<(s * n) \div g, (s * d) \div g>>

R(n) == <<n, 1>>
Q(n, d) == Norm(n, d)
Zero == R(0)
One == R(1)

RAdd(a, b) ==
    LET g == GCD(a[2], b[2])
    IN  Norm(a[1] * (b[2] \div g) + b[1] * (a[2] \div g), (a[2] \div g) * b[2])
RNeg(a) == <<-a[1], a[2]>>
RSub(a, b) == RAdd(a, RNeg(b))
RMul(a, b) ==
    LET g1 == GCD(Abs(a[1]), b[2])
        g2 == GCD(Abs(b[1]), a[2])
    IN  <<(a[1] \div g1) * (b[1] \div g2), (a[2] \div g2) * (b[2] \div g1)>>
RLt(a, b) == RSub(a, b)[1] < 0
RLe(a, b) == RSub(a, b)[1] <= 0
RAbs(a) == <<Abs(a[1]), a[2]>>
RHalf(a) == RMul(a, Q(1, 2))

(***************************************************************************)
(* Elementwise tensor operations (torch broadcasting of a 0-dim tensor or  *)
(* a python float against a tensor is TScale / TRsub / TSubS).             *)
(***************************************************************************)
TAdd(a, b) == [n \in DOMAIN a |-> RAdd(a[n], b[n])]
TMul(a, b) == [n \in DOMAIN a |-> RMul(a[n], b[n])]
TScale(c, a) == [n \in DOMAIN a |-> RMul(c, a[n])]
TRsub(c, a) == [n \in DOMAIN a |-> RSub(c, a[n])]
TSubS(a, c) == [n \in DOMAIN a |-> RSub(a[n], c)]
TNeg(a) == [n \in DOMAIN a |-> RNeg(a[n])]
MNeg(w) == [j \in DOMAIN w |-> TNeg(w[j])]

\* torch.nn.functional.relu on one element, on a vector and on a matrix.
relu_el_identity(x) == x
relu_el_min(x) == IF RLt(Zero, x) THEN Zero ELSE x
relu_el(x) == IF RLt(x, Zero) THEN Zero ELSE x
relu(x) == [n \in DOMAIN x |-> relu_el(x[n])]
relu2(w) == [j \in DOMAIN w |-> relu(w[j])]

RECURSIVE Dot(_, _, _)
Dot(x, w, S) ==
    IF S = {} THEN Zero
    ELSE LET i == CHOOSE i \in S : TRUE
         IN  RAdd(RMul(x[i], w[i]), Dot(x, w, S \ {i}))

\* torch.nn.functional.linear(x, w) = x @ w.T: out[j] = sum_i x[i] * w[j][i].
linear(x, w) == [j \in DOMAIN w |-> Dot(x, w[j], DOMAIN x)]

\* threshold(x, method, alpha) of norse.torch.functional.threshold: forward
\* value 1 where x >= 0, else 0; method and alpha shape the gradient only.
threshold(x, method, alpha) ==
    [n \in DOMAIN x |-> IF RLe(Zero, x[n]) THEN One ELSE Zero]

(***************************************************************************)
(* CobaLIFParameters: the defaults of the class, and the default dt.       *)
(***************************************************************************)
CobaLIFParameters ==
    [tau_syn_exc_inv |-> Q(1, 5),
     tau_syn_inh_inv |-> Q(1, 5),
     c_m_inv         |-> R(5),
     g_l             |-> Q(1, 4),
     e_rev_I         |-> R(-100),
     e_rev_E         |-> R(60),
     v_rest          |-> R(-20),
     v_reset         |-> R(-70),
     v_thresh        |-> R(-10),
     method          |-> "heaviside",
     alpha           |-> Zero]

default_dt == Q(1, 1000)

\* Other parameter values a caller may construct (any field can be overridden).
CoarseParameters ==
    [tau_syn_exc_inv |-> Q(1, 2),
     tau_syn_inh_inv |-> Q(1, 4),
     c_m_inv         |-> R(1),
     g_l             |-> Q(1, 2),
     e_rev_I         |-> R(-4),
     e_rev_E         |-> R(4),
     v_rest          |-> R(0),
     v_reset         |-> R(-2),
     v_thresh        |-> R(2),
     method          |-> "heaviside",
     alpha           |-> Zero]

\* The (parameters, dt) pairs explored; the first three also with weights.
WeightConfigs ==
    { [p |-> CobaLIFParameters, h |-> default_dt],
      [p |-> CoarseParameters, h |-> R(1)],
      [p |-> CoarseParameters, h |-> R(4)] }
Configs ==
    WeightConfigs \cup
    { [p |-> CobaLIFParameters, h |-> R(1)],
      [p |-> CoarseParameters, h |-> Q(1, 2)],
      [p |-> [CoarseParameters EXCEPT !.v_reset = R(3)], h |-> R(1)],
      [p |-> [CoarseParameters EXCEPT !.v_rest = R(3)], h |-> R(1)] }

(***************************************************************************)
(* The four stages both step functions share, line for line.               *)
(***************************************************************************)

\* dg = -dt * tau_inv * g;  g = g + dg
syn_decay_dt_dropped(g, tau_inv, h) ==
    LET dg == TScale(RNeg(tau_inv), g)
    IN  TAdd(g, dg)
syn_decay(g, tau_inv, h) ==
    LET dg == TScale(RMul(RNeg(h), tau_inv), g)
    IN  TAdd(g, dg)

\* dv = dt * c_m_inv * (g_l*(v_rest - v) + g_e*(e_rev_E - v) + g_i*(e_rev_I - v))
\* v = v + dv
euler_v(v, g_e, g_i, p, h) ==
    LET dv == TScale(RMul(h, p.c_m_inv),
                  TAdd(TAdd(TScale(p.g_l, TRsub(p.v_rest, v)),
                            TMul(g_e, TRsub(p.e_rev_E, v))),
                       TMul(g_i, TRsub(p.e_rev_I, v))))
    IN  TAdd(v, dv)

\* z_new = threshold(v - v_thresh, method, alpha)
spike_above_rest(v, p) == threshold(TSubS(v, p.v_rest), p.method, p.alpha)
spike(v, p) == threshold(TSubS(v, p.v_thresh), p.method, p.alpha)

\* v = (1 - z_new) * v + z_new * v_reset
reset_v_missing(z_new, v, p) == v
reset_v_swapped(z_new, v, p) ==
    TAdd(TMul(z_new, v), TScale(p.v_reset, TRsub(One, z_new)))
reset_v(z_new, v, p) ==
    TAdd(TMul(TRsub(One, z_new), v), TScale(p.v_reset, z_new))

(***************************************************************************)
(* coba_lif_step: Euler integration step of the recurrent neuron.          *)
(*   x: input_tensor, s: state, w_in: input_weights,                       *)
(*   w_rec: recurrent_weights, p: parameters, h: dt.                       *)
(* The result records z_new and the returned CobaLIFState, the local v     *)
(* before the reset (v_euler) and the value of the argument object s when  *)
(* the call returns (arg_state: every tensor operation is out of place).   *)
(***************************************************************************)
coba_lif_step_in_place(x, s, w_in, w_rec, p, h) ==
    LET g_e0 == syn_decay(s.g_e, p.tau_syn_exc_inv, h)
        g_i0 == syn_decay(s.g_i, p.tau_syn_inh_inv, h)
        g_e1 == TAdd(g_e0, linear(x, relu2(w_in)))
        g_i1 == TAdd(g_i0, linear(x, relu2(MNeg(w_in))))
        g_e  == TAdd(g_e1, linear(s.z, relu2(w_rec)))
        g_i  == TAdd(g_i1, linear(s.z, relu2(MNeg(w_rec))))
        v0   == euler_v(s.v, g_e, g_i, p, h)
        z_new == spike(v0, p)
        v    == reset_v(z_new, v0, p)
    IN  [z_new |-> z_new,
         next_state |-> [z |-> z_new, v |-> v, g_e |-> g_e, g_i |-> g_i],
         v_euler |-> v0,
         arg_state |-> [s EXCEPT !.g_e = g_e, !.g_i = g_i]]

coba_lif_step_no_recurrence(x, s, w_in, w_rec, p, h) ==
    LET g_e0 == syn_decay(s.g_e, p.tau_syn_exc_inv, h)
        g_i0 == syn_decay(s.g_i, p.tau_syn_inh_inv, h)
        g_e  == TAdd(g_e0, linear(x, relu2(w_in)))
        g_i  == TAdd(g_i0, linear(x, relu2(MNeg(w_in))))
        v0   == euler_v(s.v, g_e, g_i, p, h)
        z_new == spike(v0, p)
        v    == reset_v(z_new, v0, p)
    IN  [z_new |-> z_new,
         next_state |-> [z |-> z_new, v |-> v, g_e |-> g_e, g_i |-> g_i],
         v_euler |-> v0,
         arg_state |-> s]

coba_lif_step(x, s, w_in, w_rec, p, h) ==
    LET g_e0 == syn_decay(s.g_e, p.tau_syn_exc_inv, h)
        g_i0 == syn_decay(s.g_i, p.tau_syn_inh_inv, h)
        g_e1 == TAdd(g_e0, linear(x, relu2(w_in)))
        g_i1 == TAdd(g_i0, linear(x, relu2(MNeg(w_in))))
        g_e  == TAdd(g_e1, linear(s.z, relu2(w_rec)))
        g_i  == TAdd(g_i1, linear(s.z, relu2(MNeg(w_rec))))
        v0   == euler_v(s.v, g_e, g_i, p, h)
        z_new == spike(v0, p)
        v    == reset_v(z_new, v0, p)
    IN  [z_new |-> z_new,
         next_state |-> [z |-> z_new, v |-> v, g_e |-> g_e, g_i |-> g_i],
         v_euler |-> v0,
         arg_state |-> s]

(***************************************************************************)
(* coba_lif_feed_forward_step: the same step without recurrence; the       *)
(* signed input drives the conductances directly.                          *)
(***************************************************************************)
coba_lif_feed_forward_step_input_decayed(x, s, p, h) ==
    LET g_e  == syn_decay(TAdd(s.g_e, relu(x)), p.tau_syn_exc_inv, h)
        g_i  == syn_decay(TAdd(s.g_i, relu(TNeg(x))), p.tau_syn_inh_inv, h)
        v0   == euler_v(s.v, g_e, g_i, p, h)
        z_new == spike(v0, p)
        v    == reset_v(z_new, v0, p)
    IN  [z_new |-> z_new,
         next_state |-> [v |-> v, g_e |-> g_e, g_i |-> g_i],
         v_euler |-> v0,
         arg_state |-> s]

coba_lif_feed_forward_step_old_conductances(x, s, p, h) ==
    LET g_e0 == syn_decay(s.g_e, p.tau_syn_exc_inv, h)
        g_i0 == syn_decay(s.g_i, p.tau_syn_inh_inv, h)
        g_e  == TAdd(g_e0, relu(x))
        g_i  == TAdd(g_i0, relu(TNeg(x)))
        v0   == euler_v(s.v, s.g_e, s.g_i, p, h)
        z_new == spike(v0, p)
        v    == reset_v(z_new, v0, p)
    IN  [z_new |-> z_new,
         next_state |-> [v |-> v, g_e |-> g_e, g_i |-> g_i],
         v_euler |-> v0,
         arg_state |-> s]

coba_lif_feed_forward_step(x, s, p, h) ==
    LET g_e0 == syn_decay(s.g_e, p.tau_syn_exc_inv, h)
        g_i0 == syn_decay(s.g_i, p.tau_syn_inh_inv, h)
        g_e  == TAdd(g_e0, relu(x))
        g_i  == TAdd(g_i0, relu(TNeg(x)))
        v0   == euler_v(s.v, g_e, g_i, p, h)
        z_new == spike(v0, p)
        v    == reset_v(z_new, v0, p)
    IN  [z_new |-> z_new,
         next_state |-> [v |-> v, g_e |-> g_e, g_i |-> g_i],
         v_euler |-> v0,
         arg_state |-> s]

(***************************************************************************)
(* The caller: initial conditions, inputs and weights it may supply.       *)
(***************************************************************************)
Const(S, c) == [n \in S |-> c]
ZeroT == Const(Neurons, Zero)

\* Initial membrane potentials, placed relative to the parameters.
InitV(p) ==
    LET above == RAdd(p.v_thresh, One)
        low   == RHalf(RAdd(p.v_reset, p.v_rest))
        high  == RHalf(RAdd(p.v_rest, p.v_thresh))
    IN  { Const(Neurons, c) : c \in {p.v_reset, low, p.v_rest, high, p.v_thresh, above} }
        \cup { [n \in Neurons |-> IF n = "n1" THEN low ELSE high] }

\* Initial conductance pairs <<g_e, g_i>>.
InitG ==
    { <<ZeroT, ZeroT>>,
      <<[n \in Neurons |-> IF n = "n1" THEN One ELSE Zero], ZeroT>>,
      <<ZeroT, Const(Neurons, One)>>,
      <<[n \in Neurons |-> IF n = "n1" THEN One ELSE Zero],
        [n \in Neurons |-> IF n = "n1" THEN Zero ELSE R(2)]>> }

InitZ == [Neurons -> {Zero, One}]

Row(a) == Const(Inputs, R(a))
Mat(a, b, c, d) ==
    [j \in Neurons |-> [i \in Neurons |->
        IF j = "n1" THEN (IF i = "n1" THEN R(a) ELSE R(b))
                    ELSE (IF i = "n1" THEN R(c) ELSE R(d))]]
InMat(a, b) == [j \in Neurons |-> IF j = "n1" THEN Row(a) ELSE Row(b)]

\* The <<input_weights, recurrent_weights>> pairs explored.
Weights ==
    { <<InMat(0, 0), Mat(0, 0, 0, 0)>>,
      <<InMat(1, -2), Mat(0, 0, 0, 0)>>,
      <<InMat(2, -1), Mat(-1, 1, -1, 0)>>,
      <<InMat(0, 0), Mat(-1, -2, 1, 1)>>,
      <<InMat(-1, -1), Mat(1, 1, 1, 1)>> }

SpikeValues == {R(-1), Zero, One}
RecInputs == [Inputs -> SpikeValues]
FFInputs ==
    { [n \in Neurons |-> IF n = "n1" THEN a[1] ELSE a[2]] :
        a \in { <<Zero, Zero>>, <<One, R(-1)>>, <<R(-1), Zero>>, <<One, One>> } }

NonNeg(t) == \A n \in DOMAIN t : RLe(Zero, t[n])
AllZero(t) == \A n \in DOMAIN t : t[n] = Zero

ZeroWeights == <<InMat(0, 0), Mat(0, 0, 0, 0)>>
NoInput(k) == IF k = "rec" THEN Const(Inputs, Zero) ELSE ZeroT
NoResult(s) ==
    [z_new |-> ZeroT, next_state |-> s, v_euler |-> s.v, arg_state |-> s]

\* The call is explored only while the state's denominators are small.
Small(s) ==
    \A n \in Neurons :
        s.v[n][2] <= MaxDen /\ s.g_e[n][2] <= MaxDen /\ s.g_i[n][2] <= MaxDen

\* With weights, fewer initial conditions are explored than without.
InitRec ==
    \E c \in Configs, w \in Weights, g \in InitG, z \in InitZ :
    \E v \in InitV(c.p) :
        /\ w = ZeroWeights => z["n2"] = Zero
        /\ w # ZeroWeights =>
              /\ c \in WeightConfigs
              /\ v["n2"] = RHalf(RAdd(c.p.v_rest, c.p.v_thresh))
              /\ g[1]["n1"] = One
              /\ z["n1"] = One \/ z["n2"] = Zero
        /\ parameters = c.p /\ dt = c.h
        /\ input_weights = w[1] /\ recurrent_weights = w[2]
        /\ state = [z |-> z, v |-> v, g_e |-> g[1], g_i |-> g[2]]

InitFeedForward ==
    \E c \in Configs, g \in InitG : \E v \in InitV(c.p) :
        /\ parameters = c.p /\ dt = c.h
        /\ input_weights = ZeroWeights[1] /\ recurrent_weights = ZeroWeights[2]
        /\ state = [v |-> v, g_e |-> g[1], g_i |-> g[2]]

Init ==
    /\ kind \in {"rec", "ff"}
    /\ IF kind = "rec" THEN InitRec ELSE InitFeedForward
    /\ init_state = state
    /\ input_tensor = NoInput(kind)
    /\ out = NoResult(state)
    /\ pc = "idle"
    /\ steps = 0
    /\ inputs_nonneg = TRUE
    /\ inputs_zero = TRUE

\* The caller calls coba_lif_step with input x and the state it holds.
CallStep(x) ==
    /\ kind = "rec" /\ pc = "idle" /\ steps < MaxSteps /\ Small(state)
    /\ \E r \in {coba_lif_step(x, state, input_weights, recurrent_weights,
                               parameters, dt)} :
           /\ out' = r
           /\ state' = r.arg_state
    /\ input_tensor' = x
    /\ pc' = "returned"
    /\ UNCHANGED <<kind, parameters, dt, input_weights, recurrent_weights,
                   steps, init_state, inputs_nonneg, inputs_zero>>

\* The caller calls coba_lif_feed_forward_step with input x.
CallFeedForward(x) ==
    /\ kind = "ff" /\ pc = "idle" /\ steps < MaxSteps /\ Small(state)
    /\ \E r \in {coba_lif_feed_forward_step(x, state, parameters, dt)} :
           /\ out' = r
           /\ state' = r.arg_state
    /\ input_tensor' = x
    /\ pc' = "returned"
    /\ UNCHANGED <<kind, parameters, dt, input_weights, recurrent_weights,
                   steps, init_state, inputs_nonneg, inputs_zero>>

\* The caller feeds the returned state back in for the next time step.
FeedBack ==
    /\ pc = "returned"
    /\ state' = out.next_state
    /\ pc' = "idle"
    /\ steps' = steps + 1
    /\ inputs_nonneg' = (inputs_nonneg /\ NonNeg(input_tensor))
    /\ inputs_zero' = (inputs_zero /\ AllZero(input_tensor))
    /\ UNCHANGED <<kind, parameters, dt, input_weights, recurrent_weights,
                   input_tensor, out, init_state>>

\* The caller drops the result; it may call again with the same state object.
Reuse ==
    /\ pc = "returned"
    /\ pc' = "idle"
    /\ out' = NoResult(state)
    /\ input_tensor' = NoInput(kind)
    /\ UNCHANGED <<kind, parameters, dt, input_weights, recurrent_weights,
                   state, steps, init_state, inputs_nonneg, inputs_zero>>

Next ==
    \/ \E x \in RecInputs : CallStep(x)
    \/ \E x \in FFInputs : CallFeedForward(x)
    \/ FeedBack
    \/ Reuse

Spec == Init /\ [][Next]_vars

(***************************************************************************)
(* Properties.  In a state with pc = "returned", state is the argument of  *)
(* the call that has just returned, input_tensor its input and out its     *)
(* result.                                                                 *)
(***************************************************************************)
Returned == pc = "returned"
Next_v == out.next_state.v
Next_g_e == out.next_state.g_e
Next_g_i == out.next_state.g_i

\* g * (1 - dt * tau_inv)
Decayed(g, tau_inv) == RMul(g, RSub(One, RMul(dt, tau_inv)))
\* c lies between a and b (inclusive), whichever of a, b is larger
Between(a, c, b) == (RLe(a, c) /\ RLe(c, b)) \/ (RLe(b, c) /\ RLe(c, a))
InUnit(c) == RLe(Zero, c) /\ RLe(c, One)
Pos(S, w) == {i \in S : RLt(Zero, w[i])}
Neg(S, w) == {i \in S : RLt(w[i], Zero)}

(* C1: reset exactness.  After either step function returns, for every    *)
(* neuron: if the emitted spike is exactly 1 the returned voltage is       *)
(* exactly v_reset, and if it is exactly 0 the returned voltage is the     *)
(* voltage of the Euler update, unchanged.                                 *)
C1_ResetExact ==
    Returned =>
        \A n \in Neurons :
            /\ out.z_new[n] = One => Next_v[n] = parameters.v_reset
            /\ out.z_new[n] = Zero => Next_v[n] = out.v_euler[n]

C1_Witness ==
    /\ Returned
    /\ \E n, m \in Neurons :
          /\ out.z_new[n] = One /\ out.v_euler[n] # parameters.v_reset
          /\ Next_v[n] = parameters.v_reset
          /\ out.z_new[m] = Zero /\ out.v_euler[m] # state.v[m]

(* C2: sign routing.  In coba_lif_step with non-negative input_tensor and  *)
(* state.z, what a step adds to g_e of neuron j is the sum over the        *)
(* strictly positive entries of row j of input_weights and                 *)
(* recurrent_weights (times the presynaptic spike), what it adds to g_i    *)
(* is the sum over the strictly negative entries of their magnitudes, and  *)
(* both additions are >= 0.  In coba_lif_feed_forward_step an input x > 0  *)
(* adds x to g_e and nothing to g_i, an input x < 0 adds -x to g_i and     *)
(* nothing to g_e.                                                         *)
C2_SignRouting ==
    Returned =>
      /\ (kind = "rec" /\ NonNeg(input_tensor) /\ NonNeg(state.z)) =>
           \A j \in Neurons :
             LET exc == RAdd(Dot(input_tensor, input_weights[j],
                                 Pos(Inputs, input_weights[j])),
                             Dot(state.z, recurrent_weights[j],
                                 Pos(Neurons, recurrent_weights[j])))
                 inh == RAdd(Dot(input_tensor, TNeg(input_weights[j]),
                                 Neg(Inputs, input_weights[j])),
                             Dot(state.z, TNeg(recurrent_weights[j]),
                                 Neg(Neurons, recurrent_weights[j])))
             IN  /\ Next_g_e[j] = RAdd(Decayed(state.g_e[j], parameters.tau_syn_exc_inv), exc)
                 /\ Next_g_i[j] = RAdd(Decayed(state.g_i[j], parameters.tau_syn_inh_inv), inh)
                 /\ RLe(Zero, exc) /\ RLe(Zero, inh)
      /\ kind = "ff" =>
           \A n \in Neurons :
             LET de == Decayed(state.g_e[n], parameters.tau_syn_exc_inv)
                 di == Decayed(state.g_i[n], parameters.tau_syn_inh_inv)
             IN  /\ RLt(Zero, input_tensor[n]) =>
                       Next_g_e[n] = RAdd(de, input_tensor[n]) /\ Next_g_i[n] = di
                 /\ RLt(input_tensor[n], Zero) =>
                       Next_g_i[n] = RSub(di, input_tensor[n]) /\ Next_g_e[n] = de

C2_Witness ==
    /\ Returned /\ kind = "rec" /\ NonNeg(input_tensor)
    /\ \E j \in Neurons, i \in Inputs, k \in Neurons :
          /\ RLt(Zero, input_weights[j][i]) /\ RLt(Zero, input_tensor[i])
          /\ RLt(recurrent_weights[j][k], Zero) /\ RLt(Zero, state.z[k])
          /\ RLt(state.g_e[j], Next_g_e[j])
          /\ RLt(state.g_i[j], Next_g_i[j])

(* C3 as stated: when coba_lif_step is iterated with zero weights and     *)
(* zero input from a state with v strictly between v_reset and v_thresh,   *)
(* at every step g_e and g_i decay geometrically toward zero, and a neuron *)
(* whose conductances are zero relaxes monotonically toward v_rest without *)
(* crossing it and emits no spike.                                         *)
DecayRun ==
    /\ kind = "rec" /\ Returned
    /\ <<input_weights, recurrent_weights>> = ZeroWeights
    /\ inputs_zero /\ AllZero(input_tensor)
    /\ \A n \in Neurons : /\ RLt(parameters.v_reset, init_state.v[n])
                          /\ RLt(init_state.v[n], parameters.v_thresh)

GeometricDecay(n) ==
    /\ Next_g_e[n] = Decayed(state.g_e[n], parameters.tau_syn_exc_inv)
    /\ Next_g_i[n] = Decayed(state.g_i[n], parameters.tau_syn_inh_inv)
TowardZero(n) ==
    /\ Between(Zero, Next_g_e[n], state.g_e[n])
    /\ Between(Zero, Next_g_i[n], state.g_i[n])
Relaxes(n) ==
    (state.g_e[n] = Zero /\ state.g_i[n] = Zero) =>
        /\ Between(state.v[n], Next_v[n], parameters.v_rest)
        /\ out.z_new[n] = Zero

C3_AsStated ==
    DecayRun => \A n \in Neurons : GeometricDecay(n) /\ TowardZero(n) /\ Relaxes(n)

(* C3 amended: the geometric law holds at every step of such a run; the    *)
(* conductances move toward zero provided 0 <= dt*tau_syn_exc_inv <= 1 and *)
(* 0 <= dt*tau_syn_inh_inv <= 1; a neuron whose conductances are zero      *)
(* relaxes monotonically toward v_rest without crossing it and emits no    *)
(* spike provided 0 <= dt*c_m_inv*g_l <= 1 and v_rest < v_thresh.          *)
StableDecay ==
    /\ InUnit(RMul(dt, parameters.tau_syn_exc_inv))
    /\ InUnit(RMul(dt, parameters.tau_syn_inh_inv))
StableLeak ==
    /\ InUnit(RMul(RMul(dt, parameters.c_m_inv), parameters.g_l))
    /\ RLt(parameters.v_rest, parameters.v_thresh)

C3_DecayOnly ==
    DecayRun =>
        \A n \in Neurons :
            /\ GeometricDecay(n)
            /\ StableDecay => TowardZero(n)
            /\ StableLeak => Relaxes(n)

C3_Witness ==
    /\ DecayRun /\ StableDecay /\ StableLeak /\ steps >= 1
    /\ dt # One
    /\ \E n, m \in Neurons :
          /\ RLt(Zero, Next_g_e[n]) /\ RLt(Next_g_e[n], state.g_e[n])
          /\ state.g_e[m] = Zero /\ state.g_i[m] = Zero
          /\ Next_v[m] # state.v[m] /\ Next_v[m] # parameters.v_rest

(* C4: spike rule with non-strict boundary.  After either step function  *)
(* returns, every emitted z_new is exactly 0 or 1, and it is 1 exactly     *)
(* when the voltage after integration and before the reset satisfies       *)
(* v - v_thresh >= 0 (so v - v_thresh = 0 emits a spike).                  *)
C4_SpikeRule ==
    Returned =>
        \A n \in Neurons :
            /\ out.z_new[n] \in {Zero, One}
            /\ out.z_new[n] = One <=>
                   RLe(Zero, RSub(out.v_euler[n], parameters.v_thresh))

C4_Witness ==
    /\ Returned
    /\ \E n, m \in Neurons :
          /\ out.v_euler[n] = parameters.v_thresh /\ out.z_new[n] = One
          /\ RLt(out.v_euler[m], parameters.v_thresh) /\ out.z_new[m] = Zero

(* C5: the input of the current step is not decayed in that step.  After  *)
(* coba_lif_feed_forward_step returns, g_e' = g_e*(1 - dt*tau_syn_exc_inv) *)
(* + max(input, 0) and g_i' = g_i*(1 - dt*tau_syn_inh_inv) +               *)
(* max(-input, 0); with dt = 0.001, tau_syn_exc_inv = 0.2, zero            *)
(* conductances and input 1 this gives g_e' = 1 and g_i' = 0.              *)
RMax0(a) == IF RLe(Zero, a) THEN a ELSE Zero

C5_InputNotDecayed ==
    (Returned /\ kind = "ff") =>
        \A n \in Neurons :
            /\ Next_g_e[n] = RAdd(Decayed(state.g_e[n], parameters.tau_syn_exc_inv),
                                  RMax0(input_tensor[n]))
            /\ Next_g_i[n] = RAdd(Decayed(state.g_i[n], parameters.tau_syn_inh_inv),
                                  RMax0(RNeg(input_tensor[n])))
            /\ ( /\ dt = Q(1, 1000) /\ parameters.tau_syn_exc_inv = Q(2, 10)
                 /\ state.g_e[n] = Zero /\ state.g_i[n] = Zero
                 /\ input_tensor[n] = One )
               => (Next_g_e[n] = One /\ Next_g_i[n] = Zero)

C5_Witness ==
    /\ Returned /\ kind = "ff"
    /\ dt = Q(1, 1000) /\ parameters.tau_syn_exc_inv = Q(2, 10)
    /\ \E n \in Neurons :
          /\ state.g_e[n] = Zero /\ state.g_i[n] = Zero
          /\ input_tensor[n] = One
          /\ Next_g_e[n] = One /\ Next_g_i[n] = Zero

EulerOf(v, ge, gi) ==
    RAdd(v, RMul(RMul(dt, parameters.c_m_inv),
                 RAdd(RAdd(RMul(parameters.g_l, RSub(parameters.v_rest, v)),
                           RMul(ge, RSub(parameters.e_rev_E, v))),
                      RMul(gi, RSub(parameters.e_rev_I, v)))))

C7_EulerOrder ==
    Returned =>
        \A n \in Neurons :
            out.v_euler[n] = EulerOf(state.v[n], Next_g_e[n], Next_g_i[n])

C7_Witness ==
    /\ Returned /\ steps >= 1
    /\ \E n \in Neurons :
          /\ Next_g_e[n] # state.g_e[n] /\ Next_g_i[n] # state.g_i[n]
          /\ out.v_euler[n] # EulerOf(state.v[n], state.g_e[n], state.g_i[n])
          /\ out.v_euler[n] # state.v[n]

(* C8: one-step delay of recurrent feedback.  In every call of            *)
(* coba_lif_step the returned conductances are the decayed old ones plus   *)
(* the input drive plus the drive of state.z, the spikes carried in the    *)
(* state, through max(recurrent_weights, 0) and max(-recurrent_weights,    *)
(* 0); and when the result is fed back, the next state.z is the z_new      *)
(* that call emitted.                                                      *)
Drive(x, w) == [j \in Neurons |-> Dot(x, [i \in DOMAIN x |-> RMax0(w[j][i])], DOMAIN x)]

C9_SubThreshold ==
    RLt(parameters.v_reset, parameters.v_thresh) =>
        /\ Returned => \A n \in Neurons : RLt(Next_v[n], parameters.v_thresh)
        /\ steps >= 1 => \A n \in Neurons : RLt(state.v[n], parameters.v_thresh)

C9_Witness ==
    /\ Returned /\ RLt(parameters.v_reset, parameters.v_thresh)
    /\ \E n, m \in Neurons :
          /\ RLe(parameters.v_thresh, state.v[n])
          /\ RLe(parameters.v_thresh, out.v_euler[n])
          /\ RLt(Next_v[n], parameters.v_thresh)
          /\ RLt(state.v[m], parameters.v_thresh)
          /\ RLe(parameters.v_thresh, out.v_euler[m])

(* C10: non-negative conductances.  If the initial g_e, g_i (and z) are    *)
(* >= 0 and 0 <= dt*tau_syn_exc_inv <= 1 and 0 <= dt*tau_syn_inh_inv <= 1, *)
(* then g_e >= 0 and g_i >= 0 in every state returned by a sequence of     *)
(* coba_lif_feed_forward_step calls with inputs of any sign, and by a      *)
(* sequence of coba_lif_step calls with non-negative input_tensor and      *)
(* weights of any sign.                                                    *)
InitNonNeg ==
    /\ NonNeg(init_state.g_e) /\ NonNeg(init_state.g_i)
    /\ kind = "rec" => NonNeg(init_state.z)

C10_NonNegConductance ==
    (InitNonNeg /\ StableDecay /\ (kind = "rec" => inputs_nonneg)) =>
        /\ NonNeg(state.g_e) /\ NonNeg(state.g_i)
        /\ (Returned /\ (kind = "rec" => NonNeg(input_tensor))) =>
               NonNeg(Next_g_e) /\ NonNeg(Next_g_i)

C10_Witness ==
    /\ Returned /\ kind = "rec" /\ steps >= 1
    /\ InitNonNeg /\ StableDecay /\ inputs_nonneg /\ NonNeg(input_tensor)
    /\ \E j \in Neurons, i \in Inputs, k \in Neurons :
          /\ RLt(input_weights[j][i], Zero) /\ RLt(Zero, input_tensor[i])
          /\ RLt(recurrent_weights[j][k], Zero) /\ RLt(Zero, state.z[k])
          /\ RLt(Zero, Next_g_i[j]) /\ RLe(Zero, Next_g_e[j])

====
